---- MODULE Spec2Model ----
(***************************************************************************)
(* The two allocators of the repository as state machines.                 *)
(*                                                                         *)
(*   MemoryPool<T>  (Fast_allocator_than_new_and_delete.cpp): a fixed-size *)
(*       block pool whose free list is threaded through the free blocks.   *)
(*       Memory is modelled byte by byte: a link is PtrSize little-endian  *)
(*       bytes written at the block's address, as reinterpret_cast does.   *)
(*       A byte of the model has ByteBits bits (the build's has 8), so     *)
(*       that every value PtrSize bytes can hold is a number of the model. *)
(*   MemoryArena / Arena  (the arena tutorial): bump allocators over one   *)
(*       buffer; size_t arithmetic is kept modulo 2^WordBits.              *)
(*                                                                         *)
(* One behaviour exercises one object (obj); the objects share no state.   *)
(* Spec runs single calls, TraceSpec an arena with its calls recorded,     *)
(* LifeSpec and ArenaLifeSpec copies and destruction, ThreadSpec two       *)
(* threads on one pool, BenchSpec the benchmark's loops, SizedSpec pools   *)
(* of other element sizes, StackSpec the StackAllocator and CArenaSpec the *)
(* C arena.                                                                *)
(***************************************************************************)
EXTENDS Integers, Sequences, FiniteSets, TLC

VARIABLES
    obj,            \* which object this behaviour exercises
    aborted,        \* the process was stopped at an out-of-bounds access
    m_Pool,         \* MemoryPool::m_Pool (address of the storage)
    m_FreeList,     \* MemoryPool::m_FreeList
    m_BlockCount,   \* MemoryPool::m_BlockCount
    sizeofT,        \* sizeof(T) of the instantiation
    mem,            \* written bytes: address -> byte (unwritten = indeterminate)
    ptrs,           \* pointers the caller holds, in the order Allocate returned them
    misused,        \* Deallocate was called with a pointer the caller did not hold
    hist,           \* the calls made since construction, with their results
                    \* (the pool's; an arena's when its calls are traced)
    buffer,         \* MemoryArena::buffer / Arena::memory (address)
    capacity,       \* MemoryArena::capacity / Arena::capacity
    offset,         \* MemoryArena::offset / Arena::offset
    last,           \* the last arena call and its result
    alive,          \* the instances not yet destroyed: "orig", "copy"
    copy,           \* the members of the copy-constructed instance, or NoCopy
    copyPtrs,       \* pointers handed out by the copy's Allocate
    releases,       \* how many times the storage was passed to delete[]
    locking,        \* the callers wrap every pool call in one mutex
    lock,           \* the thread holding that mutex, or NoThread
    pc,             \* per thread: the statement of the call it is in, or "idle"
    local,          \* per thread: the locals and the argument of its call
    held,           \* per thread: the blocks Allocate has returned to it
    calls           \* per thread: the number of calls it has started

poolVars  == <<m_Pool, m_FreeList, m_BlockCount, sizeofT, mem, ptrs, misused, hist>>
arenaVars == <<buffer, capacity, offset, last>>
lifeVars  == <<alive, copy, copyPtrs, releases>>
threadVars == <<locking, lock, pc, local, held, calls>>
vars      == <<obj, aborted, poolVars, arenaVars, lifeVars, threadVars>>

----------------------------------------------------------------------------
(* Bounds of the model *)

MaxBlocks   == 3
MaxHist     == 6
WordBits    == 8
MaxAlignLog == 5
MaxCalls    == 3
ByteBits    == 3

(* Constants of the program *)

NULL       == 0
PtrSize    == 8
BLOCK_SIZE == 64

\* The values of a byte.
Byte == 2 ^ ByteBits

\* Addresses operator new[] may return for the pool's storage: one whose
\* upper half of the pointer is zero (the heap of a non-PIE or static
\* build) and one with non-zero bytes in both halves (the heap of a PIE
\* build).
PoolBases == {4 * Byte ^ 3, Byte ^ 4 + 4 * Byte ^ 3}

\* A T object of the caller that is not part of any pool (a foreign pointer).
ForeignAddr == 2 * BLOCK_SIZE

----------------------------------------------------------------------------
(* Memory: bytes, and links stored in them *)

EmptyMem == [a \in {} |-> 0]

LinkBytes(addr) == addr .. (addr + PtrSize - 1)

RECURSIVE ByteOf(_, _)
ByteOf(v, k) == IF k = 0 THEN v % Byte ELSE ByteOf(v \div Byte, k - 1)

\* block->next = v, block being addr reinterpreted as a FreeBlock*.
WriteLink(m, addr, v) ==
    [a \in (DOMAIN m) \cup LinkBytes(addr) |->
        IF a \in LinkBytes(addr) THEN ByteOf(v, a - addr) ELSE m[a]]

Written(m, addr) == LinkBytes(addr) \subseteq DOMAIN m

RECURSIVE DecodeFrom(_, _, _)
DecodeFrom(m, addr, k) ==
    IF k = PtrSize THEN 0 ELSE m[addr + k] + Byte * DecodeFrom(m, addr, k + 1)

\* block->next read back, block being addr reinterpreted as a FreeBlock*.
ReadLink(m, addr) == DecodeFrom(m, addr, 0)

\* The link at addr lies inside the object of `size` bytes at `lo`.
LinkInside(addr, lo, size) == lo <= addr /\ addr + PtrSize <= lo + size

\* An access to the link at addr stays inside memory the program owns: the
\* pool's storage (sizeof(T) * block_count bytes) or the caller's own object.
LinkInBounds(addr, pool, S, n) ==
    \/ LinkInside(addr, pool, S * n)
    \/ LinkInside(addr, ForeignAddr, S)

----------------------------------------------------------------------------
(* MemoryPool<T> *)

SlotAddr(pool, S, i) == pool + i * S

SlotAddrs(pool, S, n) == {SlotAddr(pool, S, i) : i \in 0 .. (n - 1)}

\* Mutant: the loop runs one slot too far (i <= m_BlockCount).
RECURSIVE BuildFreeList_OneTooMany(_, _, _, _, _, _)
BuildFreeList_OneTooMany(m, pool, S, n, i, block) ==
    IF i <= n
    THEN BuildFreeList_OneTooMany(WriteLink(m, block, pool + i * S), pool, S,
                                  n, i + 1, pool + i * S)
    ELSE WriteLink(m, block, NULL)

\* Mutant: the stride is the size of a link, not sizeof(T).
RECURSIVE BuildFreeList_LinkStride(_, _, _, _, _, _)
BuildFreeList_LinkStride(m, pool, S, n, i, block) ==
    IF i < n
    THEN BuildFreeList_LinkStride(WriteLink(m, block, pool + i * PtrSize),
                                  pool, S, n, i + 1, pool + i * PtrSize)
    ELSE WriteLink(m, block, NULL)

\* The constructor's loop and the write that follows it.
RECURSIVE BuildFreeList(_, _, _, _, _, _)
BuildFreeList(m, pool, S, n, i, block) ==
    IF i < n
    THEN BuildFreeList(WriteLink(m, block, pool + i * S), pool, S, n,
                       i + 1, pool + i * S)
    ELSE WriteLink(m, block, NULL)

\* The addresses the constructor writes links at.
CtorWrites(pool, S, n) ==
    {pool} \cup {pool + i * S : i \in 1 .. (n - 1)}

MemoryPoolCtor(pool, S, n) ==
    [m_Pool       |-> pool,
     m_FreeList   |-> pool,
     m_BlockCount |-> n,
     mem          |-> BuildFreeList(EmptyMem, pool, S, n, 1, pool)]

\* Allocate's test of the free list.
AllocateThrows(head) == head = NULL

\* Variant: the pop hands out the head but does not advance it.
PopFree_KeepHead(m, head) == [block |-> head, head |-> head]

\* Allocate's pop: the block handed out and the new head.
PopFree(m, head) == [block |-> head, head |-> ReadLink(m, head)]

\* Mutant: the freed block is linked in but the head is kept, so it is not
\* the next block handed out.
PushFree_KeepHead(m, head, p) ==
    [mem |-> WriteLink(m, p, head), head |-> IF head = NULL THEN p ELSE head]

\* Mutant: Deallocate validates p and ignores a pointer that is no slot of
\* the storage.
PushFree_Validating(m, head, p) ==
    IF p \in {m_Pool + i * sizeofT : i \in 0 .. (m_BlockCount - 1)}
    THEN [mem |-> WriteLink(m, p, head), head |-> p]
    ELSE [mem |-> m, head |-> head]

\* Variant: Deallocate of the block that is already the head does nothing.
PushFree_IgnoreHead(m, head, p) ==
    IF p = head THEN [mem |-> m, head |-> head]
    ELSE [mem |-> WriteLink(m, p, head), head |-> p]

\* Deallocate's push: the link written into p and the new head.
PushFree(m, head, p) == [mem |-> WriteLink(m, p, head), head |-> p]

Range(s) == {s[i] : i \in 1 .. Len(s)}

RECURSIVE RemoveFirst(_, _)
RemoveFirst(s, x) ==
    IF s = <<>> THEN <<>>
    ELSE IF Head(s) = x THEN Tail(s)
    ELSE <<Head(s)>> \o RemoveFirst(Tail(s), x)

Call(op, arg, threw, ret) == [op |-> op, arg |-> arg, threw |-> threw, ret |-> ret]

ArenaCall(op, size, alignment, threw, ret) ==
    [op |-> op, size |-> size, alignment |-> alignment, threw |-> threw,
     ret |-> ret]

NoCopy == [none |-> TRUE]

Threads == {1, 2}
NoThread == 0

NoLocals == [block |-> NULL, next |-> NULL, result |-> "none"]

\* No call is in progress in any thread.
ThreadsIdle ==
    /\ lock = NoThread
    /\ pc = [t \in Threads |-> "idle"]
    /\ local = [t \in Threads |-> NoLocals]
    /\ held = [t \in Threads |-> {}]
    /\ calls = [t \in Threads |-> 0]

InitLife ==
    /\ alive = {"orig"}
    /\ copy = NoCopy
    /\ copyPtrs = <<>>
    /\ releases = 0
    /\ locking = FALSE
    /\ ThreadsIdle

HasCopy == copy # NoCopy

\* How many times the storage at address b was passed to delete[]: the
\* second instance's own storage has its count in copy, the first
\* instance's in releases.
StorageReleases(b) ==
    IF HasCopy /\ b = copy.own THEN copy.ownReleases ELSE releases

PoolLive ==
    /\ obj = "MemoryPool" /\ ~aborted /\ Len(hist) < MaxHist
    /\ "orig" \in alive /\ StorageReleases(m_Pool) = 0

AllocateFail ==
    /\ PoolLive
    /\ AllocateThrows(m_FreeList)
    /\ hist' = Append(hist, Call("Allocate", NULL, TRUE, NULL))
    /\ UNCHANGED <<threadVars, obj, aborted, m_Pool, m_FreeList, m_BlockCount, sizeofT,
                   mem, ptrs, misused, arenaVars, lifeVars>>

AllocateOk ==
    /\ PoolLive
    /\ ~AllocateThrows(m_FreeList)
    /\ Written(mem, m_FreeList)
    /\ LET r == PopFree(mem, m_FreeList) IN
         /\ m_FreeList' = r.head
         /\ ptrs' = Append(ptrs, r.block)
         /\ hist' = Append(hist, Call("Allocate", NULL, FALSE, r.block))
    /\ UNCHANGED <<threadVars, obj, aborted, m_Pool, m_BlockCount, sizeofT, mem, misused,
                   arenaVars, lifeVars>>

\* m_FreeList->next read outside the storage: the build may stop the process.
AllocateAbort ==
    /\ PoolLive
    /\ ~AllocateThrows(m_FreeList)
    /\ \/ ~Written(mem, m_FreeList)
       \/ ~LinkInBounds(m_FreeList, m_Pool, sizeofT, m_BlockCount)
    /\ aborted' = TRUE
    /\ UNCHANGED <<threadVars, obj, poolVars, arenaVars, lifeVars>>

DeallocateOk(p) ==
    /\ PoolLive
    /\ LET r == PushFree(mem, m_FreeList, p) IN
         /\ mem' = r.mem
         /\ m_FreeList' = r.head
    /\ ptrs' = RemoveFirst(ptrs, p)
    /\ misused' = (misused \/ p \notin Range(ptrs))
    /\ hist' = Append(hist, Call("Deallocate", p, FALSE, NULL))
    /\ UNCHANGED <<threadVars, obj, aborted, m_Pool, m_BlockCount, sizeofT, arenaVars, lifeVars>>

\* block->next written outside the storage: the build may stop the process.
DeallocateAbort(p) ==
    /\ PoolLive
    /\ ~LinkInBounds(p, m_Pool, sizeofT, m_BlockCount)
    /\ aborted' = TRUE
    /\ UNCHANGED <<threadVars, obj, poolVars, arenaVars, lifeVars>>

\* The pointers a caller can pass to Deallocate: what it holds, any slot of
\* the pool (held or already free), and an object of its own.
DeallocArgs ==
    Range(ptrs) \cup SlotAddrs(m_Pool, sizeofT, m_BlockCount) \cup {ForeignAddr}

\* A pool just constructed, for an element type of one of the given sizes.
InitPoolOf(sizes) ==
    /\ obj = "MemoryPool"
    /\ sizeofT \in sizes
    /\ \E pool \in PoolBases, n \in 0 .. MaxBlocks :
         LET c == MemoryPoolCtor(pool, sizeofT, n) IN
           /\ m_Pool = c.m_Pool
           /\ m_FreeList = c.m_FreeList
           /\ m_BlockCount = c.m_BlockCount
           /\ mem = c.mem
           /\ aborted \in
                IF \A a \in CtorWrites(pool, sizeofT, n) :
                       LinkInside(a, pool, sizeofT * n)
                THEN {FALSE} ELSE {FALSE, TRUE}
    /\ ptrs = <<>>
    /\ misused = FALSE
    /\ hist = <<>>
    /\ buffer = NULL /\ capacity = 0 /\ offset = 0
    /\ last = ArenaCall("none", 0, 0, FALSE, NULL)
    /\ InitLife

\* The pool of main: MemoryPool<std::array<char, 64>>.
InitPool == InitPoolOf({BLOCK_SIZE})

----------------------------------------------------------------------------
(* MemoryArena and Arena.  size_t arithmetic is unsigned and wraps; the     *)
(* model keeps that arithmetic in a word of WordBits bits (the build's     *)
(* size_t has 64), so sizes "near the largest value" are Word - k.         *)

Word == 2 ^ WordBits

RECURSIVE BitAnd(_, _, _)
BitAnd(x, y, bits) ==
    IF bits = 0 THEN 0
    ELSE (x % 2) * (y % 2) + 2 * BitAnd(x \div 2, y \div 2, bits - 1)

BitNot(x) == Word - 1 - x

\* (current + alignment - 1) & ~(alignment - 1)
AlignUp(current, alignment) ==
    BitAnd((current + alignment - 1) % Word,
           BitNot((alignment + Word - 1) % Word), WordBits)

\* Variant: the offset is rounded up instead of the address.
Adjustment_OffsetOnly(buf, off, alignment) ==
    (AlignUp(off, alignment) + Word - off) % Word

\* aligned - reinterpret_cast<size_t>(buffer) - offset
Adjustment(buf, off, alignment) ==
    (AlignUp((buf + off) % Word, alignment) + 2 * Word - buf - off) % Word

\* Variant: a request that ends exactly at the capacity is refused.
MemoryArenaThrows_AtCapacity(off, adj, size, cap) ==
    (off + adj + size) % Word >= cap

\* MemoryArena::allocate's test: offset + adjustment + size > capacity
MemoryArenaThrows(off, adj, size, cap) == (off + adj + size) % Word > cap

\* Arena::allocate's test: offset + size > capacity
ArenaThrows(off, size, cap) == (off + size) % Word > cap

\* Addresses ::operator new and new char[] return (aligned for max_align_t).
ArenaBases == {16, 32, 48}

ArenaCapacities == {0, 24, 64}

\* Request sizes: small ones, the capacities and their successors, and sizes
\* near the largest value of the word.
ArenaSizes == {0, 1, 3, 8, 24, 25, 64, 65, Word - 40, Word - 8, Word - 1}

Alignments == {2 ^ k : k \in 0 .. MaxAlignLog}

ArenaLive(kind) ==
    obj = kind /\ "orig" \in alive /\ StorageReleases(buffer) = 0

Outcome(threw, ret, off) == [threw |-> threw, ret |-> ret, offset |-> off]

\* Variant: the padding is added to the offset before the capacity test, so
\* a refused request still moves the offset.
MemoryArenaOutcome_PadsFirst(buf, off, cap, size, alignment) ==
    LET adjustment == Adjustment(buf, off, alignment) IN
      IF MemoryArenaThrows(off, adjustment, size, cap)
      THEN Outcome(TRUE, NULL, (off + adjustment) % Word)
      ELSE Outcome(FALSE, (buf + off + adjustment) % Word,
                   (off + adjustment + size) % Word)

\* MemoryArena::allocate on an arena with members buf, off, cap: whether it
\* throws, the pointer it returns and the offset it leaves.
MemoryArenaOutcome(buf, off, cap, size, alignment) ==
    LET adjustment == Adjustment(buf, off, alignment) IN
      IF MemoryArenaThrows(off, adjustment, size, cap)
      THEN Outcome(TRUE, NULL, off)
      ELSE Outcome(FALSE, (buf + off + adjustment) % Word,
                   (off + adjustment + size) % Word)

\* Arena::allocate, likewise.
ArenaOutcome(buf, off, cap, size) ==
    IF ArenaThrows(off, size, cap)
    THEN Outcome(TRUE, NULL, off)
    ELSE Outcome(FALSE, (buf + off) % Word, (off + size) % Word)

\* The call's effect on the arena and the record of its result.
MemoryArenaAllocateStep(size, alignment) ==
    /\ ArenaLive("MemoryArena")
    /\ LET r == MemoryArenaOutcome(buffer, offset, capacity, size, alignment) IN
         /\ last' = ArenaCall("allocate", size, alignment, r.threw, r.ret)
         /\ offset' = r.offset
    /\ UNCHANGED <<threadVars, obj, aborted, buffer, capacity, lifeVars>>

\* Variant: reset also clears the buffer.
ResetContents_Cleared(m) == EmptyMem

\* reset() has no statement that touches the buffer's bytes.
ResetContents(m) == m

\* Variant: reset forgets to rewind the offset.
MemoryArenaResetStep_KeepOffset ==
    /\ ArenaLive("MemoryArena")
    /\ offset' = offset
    /\ mem' = ResetContents(mem)
    /\ last' = ArenaCall("reset", 0, 0, FALSE, NULL)
    /\ UNCHANGED <<threadVars, obj, aborted, buffer, capacity, lifeVars>>

MemoryArenaResetStep ==
    /\ ArenaLive("MemoryArena")
    /\ offset' = 0
    /\ mem' = ResetContents(mem)
    /\ last' = ArenaCall("reset", 0, 0, FALSE, NULL)
    /\ UNCHANGED <<threadVars, obj, aborted, buffer, capacity, lifeVars>>

ArenaAllocateStep(size) ==
    /\ ArenaLive("Arena")
    /\ LET r == ArenaOutcome(buffer, offset, capacity, size) IN
         /\ last' = ArenaCall("allocate", size, 1, r.threw, r.ret)
         /\ offset' = r.offset
    /\ UNCHANGED <<threadVars, obj, aborted, buffer, capacity, lifeVars>>

ArenaResetStep ==
    /\ ArenaLive("Arena")
    /\ offset' = 0
    /\ mem' = ResetContents(mem)
    /\ last' = ArenaCall("reset", 0, 0, FALSE, NULL)
    /\ UNCHANGED <<threadVars, obj, aborted, buffer, capacity, lifeVars>>

\* The pool's members, which no arena call touches.
poolMembers == <<m_Pool, m_FreeList, m_BlockCount, sizeofT, ptrs, misused>>

MemoryArenaAllocate(size, alignment) ==
    /\ MemoryArenaAllocateStep(size, alignment)
    /\ UNCHANGED <<poolMembers, mem, hist>>

MemoryArenaReset ==
    /\ MemoryArenaResetStep
    /\ UNCHANGED <<poolMembers, hist>>

ArenaAllocate(size) ==
    /\ ArenaAllocateStep(size)
    /\ UNCHANGED <<poolMembers, mem, hist>>

ArenaReset ==
    /\ ArenaResetStep
    /\ UNCHANGED <<poolMembers, hist>>

\* An arena of one of the given classes, just constructed.
InitArenaOf(kinds) ==
    /\ obj \in kinds
    /\ aborted = FALSE
    /\ buffer \in ArenaBases
    /\ capacity \in ArenaCapacities
    /\ offset = 0
    /\ last = ArenaCall("none", 0, 0, FALSE, NULL)
    /\ m_Pool = NULL /\ m_FreeList = NULL /\ m_BlockCount = 0
    /\ sizeofT = BLOCK_SIZE
    /\ mem = EmptyMem
    /\ ptrs = <<>>
    /\ misused = FALSE
    /\ hist = <<>>
    /\ InitLife

InitArena == InitArenaOf({"MemoryArena", "Arena"})

----------------------------------------------------------------------------
(* The allocators under their documented operations *)

Init == InitPool \/ InitArena

Next ==
    \/ AllocateFail
    \/ AllocateOk
    \/ AllocateAbort
    \/ \E p \in DeallocArgs : DeallocateOk(p)
    \/ \E p \in DeallocArgs : DeallocateAbort(p)
    \/ \E size \in ArenaSizes, alignment \in Alignments :
           MemoryArenaAllocate(size, alignment)
    \/ MemoryArenaReset
    \/ \E size \in ArenaSizes : ArenaAllocate(size)
    \/ ArenaReset

Spec == Init /\ [][Next]_vars

----------------------------------------------------------------------------
(* Lifetime of a MemoryPool: the class declares a destructor and no copy   *)
(* operation, so the language supplies a memberwise copy constructor and a *)
(* memberwise copy assignment (a move of a pool selects them too).  The    *)
(* second instance is either copy-constructed from the first or            *)
(* constructed with storage of its own; either may then be assigned from   *)
(* the other.                                                              *)

\* The implicit copy operations: every member is copied as it is.
ImplicitCopy(pool, head, n) ==
    [m_Pool |-> pool, m_FreeList |-> head, m_BlockCount |-> n]

\* The second instance: its members, the storage its constructor obtained
\* (NULL when it was copy-constructed) and the number of times that
\* storage was passed to delete[].
SecondPool(members, own, ownReleases) ==
    [m_Pool |-> members.m_Pool, m_FreeList |-> members.m_FreeList,
     m_BlockCount |-> members.m_BlockCount,
     own |-> own, ownReleases |-> ownReleases]

\* The address operator new[] returns for the second pool's own storage.
OtherPoolBase == Byte ^ 4 + 6 * Byte ^ 3

\* The storage instance i points to.
PoolOf(i) == IF i = "orig" THEN m_Pool ELSE copy.m_Pool

LifeLive(i) ==
    /\ obj = "MemoryPool" /\ ~aborted /\ Len(hist) < MaxHist
    /\ i \in alive /\ StorageReleases(PoolOf(i)) = 0

\* MemoryPool b(a);
CopyConstruct ==
    /\ LifeLive("orig")
    /\ ~HasCopy
    /\ copy' = SecondPool(ImplicitCopy(m_Pool, m_FreeList, m_BlockCount),
                          NULL, 0)
    /\ alive' = alive \cup {"copy"}
    /\ hist' = Append(hist, Call("copy-construct", NULL, FALSE, NULL))
    /\ UNCHANGED <<threadVars, obj, aborted, m_Pool, m_FreeList, m_BlockCount, sizeofT,
                   mem, ptrs, misused, arenaVars, copyPtrs, releases>>

\* MemoryPool b(n);  a second pool with storage of its own.
ConstructOther(n) ==
    /\ LifeLive("orig")
    /\ ~HasCopy
    /\ LET c == MemoryPoolCtor(OtherPoolBase, sizeofT, n) IN
         /\ copy' = SecondPool(ImplicitCopy(c.m_Pool, c.m_FreeList,
                                            c.m_BlockCount),
                               OtherPoolBase, 0)
         /\ mem' = BuildFreeList(mem, OtherPoolBase, sizeofT, n, 1,
                                 OtherPoolBase)
    /\ alive' = alive \cup {"copy"}
    /\ hist' = Append(hist, Call("construct", n, FALSE, NULL))
    /\ UNCHANGED <<threadVars, obj, aborted, m_Pool, m_FreeList, m_BlockCount, sizeofT,
                   ptrs, misused, arenaVars, copyPtrs, releases>>

\* b = a;  the members of a overwrite those of b; the storage b pointed to
\* is not released.
CopyAssign ==
    /\ obj = "MemoryPool" /\ ~aborted /\ Len(hist) < MaxHist
    /\ {"orig", "copy"} \subseteq alive
    /\ copy' = SecondPool(ImplicitCopy(m_Pool, m_FreeList, m_BlockCount),
                          copy.own, copy.ownReleases)
    /\ hist' = Append(hist, Call("copy = orig", NULL, FALSE, NULL))
    /\ UNCHANGED <<threadVars, obj, aborted, m_Pool, m_FreeList, m_BlockCount, sizeofT,
                   mem, ptrs, misused, arenaVars, alive, copyPtrs, releases>>

\* a = b;  the members of b overwrite those of a.
AssignFromCopy ==
    /\ obj = "MemoryPool" /\ ~aborted /\ Len(hist) < MaxHist
    /\ {"orig", "copy"} \subseteq alive
    /\ LET c == ImplicitCopy(copy.m_Pool, copy.m_FreeList, copy.m_BlockCount) IN
         /\ m_Pool' = c.m_Pool
         /\ m_FreeList' = c.m_FreeList
         /\ m_BlockCount' = c.m_BlockCount
    /\ hist' = Append(hist, Call("orig = copy", NULL, FALSE, NULL))
    /\ UNCHANGED <<threadVars, obj, aborted, sizeofT, mem, ptrs, misused,
                   arenaVars, lifeVars>>

\* Allocate called on the copy.
CopyAllocateFail ==
    /\ LifeLive("copy")
    /\ AllocateThrows(copy.m_FreeList)
    /\ hist' = Append(hist, Call("copy.Allocate", NULL, TRUE, NULL))
    /\ UNCHANGED <<threadVars, obj, aborted, m_Pool, m_FreeList, m_BlockCount, sizeofT,
                   mem, ptrs, misused, arenaVars, lifeVars>>

CopyAllocateOk ==
    /\ LifeLive("copy")
    /\ ~AllocateThrows(copy.m_FreeList)
    /\ Written(mem, copy.m_FreeList)
    /\ LET r == PopFree(mem, copy.m_FreeList) IN
         /\ copy' = [copy EXCEPT !.m_FreeList = r.head]
         /\ copyPtrs' = Append(copyPtrs, r.block)
         /\ hist' = Append(hist, Call("copy.Allocate", NULL, FALSE, r.block))
    /\ UNCHANGED <<threadVars, obj, aborted, m_Pool, m_FreeList, m_BlockCount, sizeofT,
                   mem, ptrs, misused, arenaVars, alive, releases>>

\* Deallocate called on the copy with a block the copy handed out.
CopyDeallocate(p) ==
    /\ LifeLive("copy")
    /\ LET r == PushFree(mem, copy.m_FreeList, p) IN
         /\ mem' = r.mem
         /\ copy' = [copy EXCEPT !.m_FreeList = r.head]
    /\ copyPtrs' = RemoveFirst(copyPtrs, p)
    /\ hist' = Append(hist, Call("copy.Deallocate", p, FALSE, NULL))
    /\ UNCHANGED <<threadVars, obj, aborted, m_Pool, m_FreeList, m_BlockCount, sizeofT,
                   ptrs, misused, arenaVars, alive, releases>>

\* ~MemoryPool: delete[] m_Pool.  Calls made after the storage was released
\* are not explored.
Destroy(i) ==
    /\ obj = "MemoryPool" /\ ~aborted
    /\ i \in alive
    /\ alive' = alive \ {i}
    /\ IF HasCopy /\ PoolOf(i) = copy.own
       THEN /\ copy' = [copy EXCEPT !.ownReleases = copy.ownReleases + 1]
            /\ UNCHANGED releases
       ELSE releases' = releases + 1 /\ UNCHANGED copy
    /\ UNCHANGED <<threadVars, obj, aborted, poolVars, arenaVars, copyPtrs>>

\* delete[] of storage that was already released: the build may stop the
\* process.
DestroyAbort(i) ==
    /\ obj = "MemoryPool" /\ ~aborted
    /\ i \in alive
    /\ StorageReleases(PoolOf(i)) >= 1
    /\ aborted' = TRUE
    /\ UNCHANGED <<threadVars, obj, poolVars, arenaVars, lifeVars>>

LifeInit == InitPool /\ m_BlockCount >= 1 /\ ~aborted

LifeNext ==
    \/ AllocateFail
    \/ AllocateOk
    \/ \E p \in Range(ptrs) : DeallocateOk(p)
    \/ CopyConstruct
    \/ \E n \in 1 .. MaxBlocks : ConstructOther(n)
    \/ CopyAssign
    \/ AssignFromCopy
    \/ CopyAllocateFail
    \/ CopyAllocateOk
    \/ \E p \in Range(copyPtrs) : CopyDeallocate(p)
    \/ \E i \in alive : Destroy(i)
    \/ \E i \in alive : DestroyAbort(i)

LifeSpec == LifeInit /\ [][LifeNext]_vars

----------------------------------------------------------------------------
(* Views of the pool's state used by the properties *)

\* The free list as Allocate would walk it, cut after `fuel` nodes.
RECURSIVE Walk(_, _, _)
Walk(m, p, fuel) ==
    IF p = NULL \/ fuel = 0 THEN <<>>
    ELSE <<p>> \o Walk(m, IF Written(m, p) THEN ReadLink(m, p) ELSE p, fuel - 1)

FreeChain == Walk(mem, m_FreeList, m_BlockCount + 2)

Count(s, x) == Cardinality({i \in 1 .. Len(s) : s[i] = x})

NoDuplicates(s) == \A i, j \in 1 .. Len(s) : s[i] = s[j] => i = j

AllAllocate(h) == \A i \in 1 .. Len(h) : h[i].op = "Allocate"

\* hist[i..j] is a run of successful Allocate calls.
AllocRun(i, j) ==
    \A k \in i .. j : hist[k].op = "Allocate" /\ ~hist[k].threw

PoolRunning == obj = "MemoryPool" /\ ~aborted

----------------------------------------------------------------------------
(* C1: for every block count n (0 included), on a freshly constructed pool *)
(* the first n Allocate calls succeed and call n+1, with no Deallocate in  *)
(* between, fails with bad_alloc.                                          *)
C1_Exhaustion ==
    (PoolRunning /\ AllAllocate(hist)) =>
        \A i \in 1 .. Len(hist) :
            /\ i <= m_BlockCount => ~hist[i].threw
            /\ i = m_BlockCount + 1 => hist[i].threw

\* The same statement for pools of at least one block (it holds there).
C1_ExhaustionNonEmpty == m_BlockCount >= 1 => C1_Exhaustion

(* C2: under contract use (Deallocate only of held blocks) every slot is   *)
(* exactly once on the free list or held exactly once; the free list is    *)
(* acyclic and null-terminated; free + held = blockCount.                  *)
C2_SlotPartition ==
    (PoolRunning /\ ~misused) =>
        /\ Len(FreeChain) < m_BlockCount + 2
        /\ NoDuplicates(FreeChain)
        /\ \A s \in SlotAddrs(m_Pool, sizeofT, m_BlockCount) :
               Count(FreeChain, s) + Count(ptrs, s) = 1
        /\ Len(FreeChain) + Len(ptrs) = m_BlockCount

\* The same statement for pools of at least one block (it holds there).
C2_SlotPartitionNonEmpty == m_BlockCount >= 1 => C2_SlotPartition

\* The block freed last is the next one handed out: an Allocate that
\* follows a Deallocate(p) immediately returns p.
MostRecentlyFreedIsNext ==
    \A i \in 1 .. (Len(hist) - 1) :
        (hist[i].op = "Deallocate" /\ hist[i + 1].op = "Allocate")
            => (~hist[i + 1].threw /\ hist[i + 1].ret = hist[i].arg)

(* C3: in any pool state, Allocate returning A, then Deallocate(A), then   *)
(* Allocate: the last call returns A again; the most recently freed block  *)
(* is always the next one handed out (strict LIFO).                        *)
C3_ReuseLIFO ==
    /\ \A i \in 1 .. (Len(hist) - 2) :
           ( /\ hist[i].op = "Allocate" /\ ~hist[i].threw
             /\ hist[i + 1].op = "Deallocate" /\ hist[i + 1].arg = hist[i].ret
             /\ hist[i + 2].op = "Allocate" )
           => (~hist[i + 2].threw /\ hist[i + 2].ret = hist[i].ret)
    /\ MostRecentlyFreedIsNext

\* A block other than the first slot is allocated, freed and handed out again.
C3_Witness ==
    /\ PoolRunning /\ ~misused /\ Len(hist) >= 4
    /\ LET n == Len(hist) IN
         /\ hist[n - 2].op = "Allocate" /\ ~hist[n - 2].threw
         /\ hist[n - 2].ret # m_Pool
         /\ hist[n - 1].op = "Deallocate" /\ hist[n - 1].arg = hist[n - 2].ret
         /\ hist[n].op = "Allocate" /\ hist[n].ret = hist[n - 2].ret

(* C4: under contract use, the addresses returned by a run of consecutive  *)
(* successful Allocate calls are pairwise distinct and each is a slot      *)
(* address inside [storage, storage + n*sizeof(T)).                        *)
C4_NonOverlap ==
    (PoolRunning /\ ~misused) =>
        \A i, j \in 1 .. Len(hist) :
            (i <= j /\ AllocRun(i, j)) =>
                /\ \A k, l \in i .. j : hist[k].ret = hist[l].ret => k = l
                /\ \A k \in i .. j :
                       /\ hist[k].ret \in SlotAddrs(m_Pool, sizeofT, m_BlockCount)
                       /\ m_Pool <= hist[k].ret
                       /\ hist[k].ret < m_Pool + m_BlockCount * sizeofT

\* The same statement for pools of at least one block (it holds there).
C4_NonOverlapNonEmpty == m_BlockCount >= 1 => C4_NonOverlap

\* The calls of the scenario: four Allocate, Deallocate of the second block,
\* Allocate.
Scenario3Calls ==
    /\ obj = "MemoryPool" /\ m_BlockCount = 3 /\ sizeofT = BLOCK_SIZE
    /\ Len(hist) = 6
    /\ \A i \in {1, 2, 3, 4, 6} : hist[i].op = "Allocate"
    /\ hist[5].op = "Deallocate" /\ hist[5].arg = hist[2].ret

(* C5: pool of 3 blocks: three Allocate succeed, the fourth fails with     *)
(* bad_alloc, Deallocate of the second block, then Allocate succeeds and   *)
(* returns the second block's address.                                     *)
C5_Scenario3 ==
    Scenario3Calls =>
        /\ \A i \in 1 .. 3 : ~hist[i].threw
        /\ hist[4].threw
        /\ ~hist[6].threw /\ hist[6].ret = hist[2].ret
        /\ hist[2].ret = SlotAddr(m_Pool, sizeofT, 1)

C5_Witness == Scenario3Calls /\ ~hist[6].threw /\ hist[4].threw

C7_NoSharedStorage ==
    /\ ~(HasCopy /\ {"orig", "copy"} \subseteq alive /\ copy.m_Pool = m_Pool)
    /\ Range(ptrs) \cap Range(copyPtrs) = {}
    /\ releases <= 1
    /\ HasCopy => copy.ownReleases <= 1

\* A Deallocate(p) call returned in this step.
DeallocateReturned(p) ==
    /\ Len(hist') = Len(hist) + 1
    /\ hist'[Len(hist')].op = "Deallocate"
    /\ hist'[Len(hist')].arg = p

\* Only Allocate / allocate ever signal an error.
OnlyAllocateThrows ==
    /\ \A i \in 1 .. Len(hist) : hist[i].threw => hist[i].op = "Allocate"
    /\ last.threw => last.op = "allocate"

(* C8: bad_alloc is the only error either allocator signals: Deallocate(p) *)
(* returns normally for every p (held, already free, foreign) and leaves p *)
(* as the free-list head with p's link holding the old head; reset()       *)
(* returns normally.                                                       *)
C8_OnlyOutOfMemory ==
    /\ []OnlyAllocateThrows
    /\ [][\A p \in DeallocArgs :
              DeallocateReturned(p) =>
                  /\ ~hist'[Len(hist')].threw
                  /\ m_FreeList' = p
                  /\ Written(mem', p)
                  /\ ReadLink(mem', p) = m_FreeList]_vars

\* Deallocate was called with a held block, then with the same block again
\* (already free), then with a foreign pointer.
C8_Witness ==
    /\ PoolRunning /\ Len(hist) = 4
    /\ hist[1].op = "Allocate" /\ ~hist[1].threw
    /\ \A i \in 2 .. 3 : hist[i].op = "Deallocate" /\ hist[i].arg = hist[1].ret
    /\ hist[4].op = "Deallocate" /\ hist[4].arg = ForeignAddr
    /\ m_FreeList = ForeignAddr
    /\ ReadLink(mem, ForeignAddr) = hist[1].ret

ArenaRunning == obj \in {"MemoryArena", "Arena"}

\* 0 <= offset <= capacity (the part of C9 that holds).
OffsetInRange == ArenaRunning => (0 <= offset /\ offset <= capacity)

(* C9: in every arena state 0 <= offset <= capacity, and offset never      *)
(* decreases except by reset().                                            *)
C9_OffsetMonotone ==
    /\ []OffsetInRange
    /\ [][ArenaRunning => (offset' >= offset \/ last'.op = "reset")]_vars

(* C10: every pointer returned by a successful arena allocate (size 0 and  *)
(* offset = capacity included) lies in [buffer, buffer + capacity).        *)
C10_PointerInBuffer ==
    (ArenaRunning /\ last.op = "allocate" /\ ~last.threw) =>
        (buffer <= last.ret /\ last.ret < buffer + capacity)

\* The closed range, for requests of at least one byte: still violated, by
\* a size whose sum with offset and adjustment wraps.
PointerInClosedBuffer ==
    (ArenaRunning /\ last.op = "allocate" /\ ~last.threw /\ last.size >= 1) =>
        (buffer <= last.ret /\ last.ret <= buffer + capacity)

----------------------------------------------------------------------------
(* Claims about the arenas' allocation arithmetic.                         *)

MemoryArenaReturned ==
    obj = "MemoryArena" /\ last.op = "allocate" /\ ~last.threw

(* C11: the address returned by every successful MemoryArena               *)
(* allocate(size, alignment) is a multiple of alignment, whatever the      *)
(* buffer's base address and the offset at the call.                       *)
C11_ReturnedAligned ==
    MemoryArenaReturned => last.ret % last.alignment = 0

\* A successful request for the largest alignment from a base address that
\* is not a multiple of it, after earlier allocations moved the offset.
C11_Witness ==
    /\ MemoryArenaReturned
    /\ last.alignment = 2 ^ MaxAlignLog
    /\ buffer % last.alignment # 0
    /\ last.ret > buffer + last.alignment
    /\ last.ret % last.alignment = 0

\* Bytes from addr up to the next multiple of alignment, in the integers.
PadTo(addr, alignment) == (alignment - (addr % alignment)) % alignment

(* C12: allocate fails with OutOfMemory exactly when offset + adjustment + *)
(* size, as a sum of integers, exceeds capacity, for every size of the     *)
(* word; a request that does not fit never succeeds.                       *)
C12_FailsExactlyWhenTooBig ==
    (ArenaRunning /\ last.op = "allocate") =>
        IF last.threw
        THEN offset + PadTo(buffer + offset, last.alignment) + last.size
                 > capacity
        ELSE (last.ret - buffer) + last.size <= capacity

\* The half of C12 that holds: a request that fits is never refused.
FitsNeverRefused ==
    (ArenaRunning /\ last.op = "allocate" /\ last.threw) =>
        offset + PadTo(buffer + offset, last.alignment) + last.size > capacity

\* This step is a successful MemoryArena allocate.
MemoryArenaReturns ==
    obj = "MemoryArena" /\ last'.op = "allocate" /\ ~last'.threw

\* The returned address is the smallest multiple of the alignment at or
\* after buffer + offset.
SmallestAlignedAddress ==
    /\ last'.ret >= buffer + offset
    /\ last'.ret % last'.alignment = 0
    /\ last'.ret - (buffer + offset) < last'.alignment

(* C13: a successful allocate with a power-of-two alignment returns the    *)
(* smallest multiple of alignment that is >= buffer + offset (so 0 <=      *)
(* adjustment < alignment) and advances offset by exactly adjustment +     *)
(* size: the new offset is (returned address - buffer) + size.             *)
C13_SmallestAlignedAndAdvance ==
    [][MemoryArenaReturns =>
          /\ SmallestAlignedAddress
          /\ offset' = (last'.ret - buffer) + last'.size]_vars

\* The half of C13 that holds: the choice of the address.
SmallestAlignedAlways == [][MemoryArenaReturns => SmallestAlignedAddress]_vars

----------------------------------------------------------------------------
(* An arena with its calls traced: the same calls, each appended to hist,  *)
(* and the caller's stores into the blocks it was given.  Traces are kept  *)
(* short by MaxTrace and by the smaller sets of requests below.            *)

MaxTrace == 4

\* A small request, a request of the smaller capacity, and one near the
\* largest value of the word.
TraceSizes == {8, 24, Word - 40}

TraceAlignments == {1, 2 ^ MaxAlignLog}

Traced == Len(hist) < MaxTrace /\ hist' = Append(hist, last')

TracedMemoryArenaAllocate(size, alignment) ==
    /\ MemoryArenaAllocateStep(size, alignment)
    /\ Traced
    /\ UNCHANGED <<poolMembers, mem>>

TracedMemoryArenaReset ==
    /\ MemoryArenaResetStep
    /\ Traced
    /\ UNCHANGED poolMembers

TracedArenaAllocate(size) ==
    /\ ArenaAllocateStep(size)
    /\ Traced
    /\ UNCHANGED <<poolMembers, mem>>

TracedArenaReset ==
    /\ ArenaResetStep
    /\ Traced
    /\ UNCHANGED poolMembers

\* The byte the caller stores: a different one at every call.
StoredByte == Len(hist) + 1

\* The caller uses the block it was just given: it stores a byte at the
\* block's first address (blocks that start inside the buffer only).
ClientStore ==
    /\ obj \in {"MemoryArena", "Arena"} /\ "orig" \in alive /\ releases = 0
    /\ last.op = "allocate" /\ ~last.threw /\ last.size >= 1
    /\ last.ret < buffer + capacity
    /\ mem' = [a \in (DOMAIN mem) \cup {last.ret} |->
                  IF a = last.ret THEN StoredByte ELSE mem[a]]
    /\ last' = ArenaCall("store", 1, 1, FALSE, last.ret)
    /\ Traced
    /\ UNCHANGED <<threadVars, obj, aborted, poolMembers, buffer, capacity, offset, lifeVars>>

TraceInit == InitArena

TraceNext ==
    \/ \E size \in TraceSizes, alignment \in TraceAlignments :
           TracedMemoryArenaAllocate(size, alignment)
    \/ TracedMemoryArenaReset
    \/ \E size \in TraceSizes : TracedArenaAllocate(size)
    \/ TracedArenaReset
    \/ ClientStore

TraceSpec == TraceInit /\ [][TraceNext]_vars

----------------------------------------------------------------------------
(* StackAllocator: a MemoryArena (it inherits allocate and reset) with     *)
(* markers.  getMarker returns the offset, freeToMarker stores the offset  *)
(* of the marker it is given; a StackMarker is a plain struct, so the      *)
(* caller can pass one it got from getMarker or one it made itself.        *)

\* Offsets of markers the caller makes itself: inside a block, and past the
\* capacity.
MarkerOffsets == {8, Word - 56}

\* The markers getMarker has returned so far.
MarkersGot == {hist[i].ret : i \in {j \in 1 .. Len(hist) : hist[j].op = "getMarker"}}

\* MemoryArena::allocate, called on the StackAllocator.
StackAllocate(size, alignment) ==
    /\ ArenaLive("StackAllocator")
    /\ LET r == MemoryArenaOutcome(buffer, offset, capacity, size, alignment) IN
         /\ last' = ArenaCall("allocate", size, alignment, r.threw, r.ret)
         /\ offset' = r.offset
    /\ Traced
    /\ UNCHANGED <<threadVars, obj, aborted, buffer, capacity, lifeVars>>
    /\ UNCHANGED <<poolMembers, mem>>

\* MemoryArena::reset, called on the StackAllocator.
StackReset ==
    /\ ArenaLive("StackAllocator")
    /\ offset' = 0
    /\ mem' = ResetContents(mem)
    /\ last' = ArenaCall("reset", 0, 0, FALSE, NULL)
    /\ Traced
    /\ UNCHANGED <<threadVars, obj, aborted, buffer, capacity, lifeVars>>
    /\ UNCHANGED poolMembers

\* StackMarker getMarker() const { return { offset }; }
GetMarker ==
    /\ ArenaLive("StackAllocator")
    /\ last' = ArenaCall("getMarker", 0, 0, FALSE, offset)
    /\ Traced
    /\ UNCHANGED <<threadVars, obj, aborted, buffer, capacity, offset, lifeVars>>
    /\ UNCHANGED <<poolMembers, mem>>

\* void freeToMarker(StackMarker marker) { offset = marker.offset; }
FreeToMarker(marker) ==
    /\ ArenaLive("StackAllocator")
    /\ offset' = marker
    /\ last' = ArenaCall("freeToMarker", marker, 0, FALSE, NULL)
    /\ Traced
    /\ UNCHANGED <<threadVars, obj, aborted, buffer, capacity, lifeVars>>
    /\ UNCHANGED <<poolMembers, mem>>

StackInit == InitArenaOf({"StackAllocator"})

StackNext ==
    \/ \E size \in TraceSizes, alignment \in TraceAlignments :
           StackAllocate(size, alignment)
    \/ StackReset
    \/ GetMarker
    \/ \E marker \in MarkersGot \cup MarkerOffsets : FreeToMarker(marker)

StackSpec == StackInit /\ [][StackNext]_vars

\* freeToMarker stores the marker's offset whatever it is: the offset can
\* end up past the capacity.
OffsetWithinCapacity == obj = "StackAllocator" => offset <= capacity

----------------------------------------------------------------------------
(* Claims about sequences of arena calls.                                  *)

ArenaTrace == IF obj \in {"MemoryArena", "Arena"} THEN hist ELSE <<>>

Succeeded(i) == ArenaTrace[i].op = "allocate" /\ ~ArenaTrace[i].threw

NoResetBetween(i, j) ==
    \A k \in (i + 1) .. (j - 1) : ArenaTrace[k].op # "reset"

(* C14: for successful allocate calls with no reset() between them, the    *)
(* returned addresses are non-decreasing and the earlier address plus the  *)
(* earlier size is at most the later address: the ranges do not overlap.   *)
C14_NonOverlapping ==
    \A i, j \in 1 .. Len(ArenaTrace) :
        (i < j /\ Succeeded(i) /\ Succeeded(j) /\ NoResetBetween(i, j)) =>
            /\ ArenaTrace[i].ret <= ArenaTrace[j].ret
            /\ ArenaTrace[i].ret + ArenaTrace[i].size <= ArenaTrace[j].ret

\* This step is a traced reset() call.
ResetCalled ==
    /\ obj \in {"MemoryArena", "Arena"}
    /\ Len(hist') = Len(hist) + 1
    /\ hist'[Len(hist')].op = "reset"

(* C15: reset() sets offset to 0 and leaves buffer, capacity and every     *)
(* byte of the buffer's contents unchanged; reset() at offset 0 changes    *)
(* nothing, and a second reset() changes nothing the first did not.        *)
C15_ResetFrame ==
    [][ResetCalled =>
          /\ offset' = 0
          /\ UNCHANGED <<buffer, capacity, mem>>
          /\ offset = 0 => UNCHANGED <<buffer, capacity, offset, mem>>
          /\ last.op = "reset" => UNCHANGED <<buffer, capacity, offset, mem>>]_vars

\* A block was allocated and written, then reset() was called twice: the
\* offset is 0 and the written byte is still there.
C15_Witness ==
    /\ obj \in {"MemoryArena", "Arena"} /\ Len(hist) = 4
    /\ Succeeded(1) /\ hist[1].size = capacity
    /\ hist[2].op = "store"
    /\ hist[3].op = "reset" /\ hist[4].op = "reset"
    /\ offset = 0
    /\ hist[1].ret \in DOMAIN mem /\ mem[hist[1].ret] = 2

\* Call k is the first allocate call after the reset() at j.
FirstAllocateAfter(j, k) ==
    /\ j < k
    /\ ArenaTrace[j].op = "reset"
    /\ ArenaTrace[k].op = "allocate"
    /\ \A m \in (j + 1) .. (k - 1) : ArenaTrace[m].op # "allocate"

\* Calls i and k asked for the same size and alignment.
SameRequest(i, k) ==
    /\ ArenaTrace[i].size = ArenaTrace[k].size
    /\ ArenaTrace[i].alignment = ArenaTrace[k].alignment

(* C16: if allocate(size, alignment) succeeded at some earlier point, at   *)
(* whatever offset, then the first allocate call after any reset() with    *)
(* the same size and alignment succeeds too.                               *)
C16_SucceedsAgainAfterReset ==
    \A i, j, k \in 1 .. Len(ArenaTrace) :
        (i < j /\ Succeeded(i) /\ FirstAllocateAfter(j, k) /\ SameRequest(i, k))
            => ~ArenaTrace[k].threw

\* The arena's first-ever allocation: the first successful allocate call.
HasFirstEver == \E i \in 1 .. Len(ArenaTrace) : Succeeded(i)
FirstEver == CHOOSE i \in 1 .. Len(ArenaTrace) :
                 Succeeded(i) /\ \A m \in 1 .. (i - 1) : ~Succeeded(m)

\* Call k succeeds, is the first allocate after a reset(), and asks for a
\* size and alignment that succeeded before that reset().
RepeatsAfterReset(k) ==
    /\ Succeeded(k)
    /\ \E i, j \in 1 .. Len(ArenaTrace) :
           i < j /\ Succeeded(i) /\ FirstAllocateAfter(j, k) /\ SameRequest(i, k)

(* C17 as stated: after any reset(), the next successful allocate for a    *)
(* size/alignment combination that succeeded before returns the address    *)
(* of the arena's first-ever allocation, whatever size and alignment that  *)
(* first-ever allocation used and whatever the base address.               *)
C17_FirstEverAddress ==
    \A k \in 1 .. Len(ArenaTrace) :
        RepeatsAfterReset(k) => ArenaTrace[k].ret = ArenaTrace[FirstEver].ret

(* C17 amended: after any reset(), the next successful allocate for a      *)
(* size/alignment combination that succeeded before returns the address    *)
(* of the arena's first-ever allocation whatever size that allocation      *)
(* used, provided it used the same alignment; whatever the base address.   *)
C17_FirstEverAddressSameAlignment ==
    \A k \in 1 .. Len(ArenaTrace) :
        (RepeatsAfterReset(k)
            /\ ArenaTrace[FirstEver].alignment = ArenaTrace[k].alignment)
            => ArenaTrace[k].ret = ArenaTrace[FirstEver].ret

\* The first-ever allocation and a later one of another size both asked for
\* the largest alignment, from a base that is not a multiple of it; after
\* reset() the later request is repeated and gets the first-ever address.
C17_Witness ==
    /\ obj = "MemoryArena" /\ Len(hist) = 4
    /\ buffer % (2 ^ MaxAlignLog) # 0
    /\ Succeeded(1) /\ Succeeded(2) /\ hist[3].op = "reset" /\ Succeeded(4)
    /\ hist[1].alignment = 2 ^ MaxAlignLog
    /\ hist[1].size # hist[2].size
    /\ SameRequest(2, 4)
    /\ hist[4].ret = hist[1].ret
    /\ hist[4].ret # buffer

\* This step is allocate(size, 1), the first call on a newly constructed
\* arena.
FirstCallAllocates(size) ==
    /\ obj \in {"MemoryArena", "Arena"}
    /\ last.op = "none"
    /\ last'.op = "allocate" /\ last'.size = size /\ last'.alignment = 1

(* C18: on a fresh arena of capacity c, allocate(c, 1) succeeds, returns   *)
(* the buffer's base address and leaves offset = c, and allocate(c + 1, 1) *)
(* fails with OutOfMemory; in particular for c = 64, sizes 64 and 65.      *)
C18_ExactCapacity ==
    [][/\ FirstCallAllocates(capacity) =>
              (~last'.threw /\ last'.ret = buffer /\ offset' = capacity)
       /\ FirstCallAllocates(capacity + 1) =>
              (last'.threw /\ offset' = 0)]_vars

\* allocate(64, 1) has succeeded on an arena of capacity 64 and filled it:
\* it returned the base address, and the offset is 64.
C18_Witness ==
    /\ obj \in {"MemoryArena", "Arena"}
    /\ capacity = 64
    /\ last = ArenaCall("allocate", 64, 1, FALSE, buffer)
    /\ offset = 64

----------------------------------------------------------------------------
(* Lifetime of the arenas.  MemoryArena and Arena declare a destructor and *)
(* no copy operation, so the language supplies a memberwise copy           *)
(* constructor and a memberwise copy assignment.  The second instance is   *)
(* either copy-constructed from the first or constructed with a buffer of  *)
(* its own; either may then be assigned from the other.                    *)

\* The address operator new returns for the second instance's own buffer.
OtherBase == 128

\* The members of the second instance; own is the buffer its constructor
\* obtained (NULL when it was copy-constructed), ownReleases the number of
\* times that buffer was passed to operator delete, first the buffer the
\* first instance's constructor obtained.
ArenaMembers(buf, cap, off, own, ownReleases, first) ==
    [buffer |-> buf, capacity |-> cap, offset |-> off,
     own |-> own, ownReleases |-> ownReleases, first |-> first]

ArenaLifeLive == obj \in {"MemoryArena", "Arena"} /\ ~aborted

\* MemoryArena b(a);
ArenaCopyConstruct ==
    /\ ArenaLifeLive
    /\ "orig" \in alive /\ ~HasCopy
    /\ copy' = ArenaMembers(buffer, capacity, offset, NULL, 0, buffer)
    /\ alive' = alive \cup {"copy"}
    /\ UNCHANGED <<threadVars, obj, aborted, poolVars, arenaVars, copyPtrs, releases>>

\* MemoryArena b(capacity);
ArenaConstructOther ==
    /\ ArenaLifeLive
    /\ "orig" \in alive /\ ~HasCopy
    /\ copy' = ArenaMembers(OtherBase, capacity, 0, OtherBase, 0, buffer)
    /\ alive' = alive \cup {"copy"}
    /\ UNCHANGED <<threadVars, obj, aborted, poolVars, arenaVars, copyPtrs, releases>>

\* b = a;  the members of a overwrite those of b, b's buffer is not released.
ArenaCopyAssign ==
    /\ ArenaLifeLive
    /\ {"orig", "copy"} \subseteq alive
    /\ copy' = [copy EXCEPT !.buffer = buffer, !.capacity = capacity,
                            !.offset = offset]
    /\ UNCHANGED <<threadVars, obj, aborted, poolVars, arenaVars, alive, copyPtrs, releases>>

\* a = b;  the members of b overwrite those of a, a's buffer is not released.
ArenaAssignFromCopy ==
    /\ ArenaLifeLive
    /\ {"orig", "copy"} \subseteq alive
    /\ buffer' = copy.buffer
    /\ capacity' = copy.capacity
    /\ offset' = copy.offset
    /\ UNCHANGED <<threadVars, obj, aborted, poolVars, last, lifeVars>>

\* The buffer instance i points to.
BufferOf(i) == IF i = "orig" THEN buffer ELSE copy.buffer

\* The buffer the first instance's constructor obtained.
FirstBuffer == IF HasCopy THEN copy.first ELSE buffer

\* How many times the buffer at address b was released.
ReleasesOf(b) ==
    IF b = FirstBuffer THEN releases
    ELSE IF HasCopy /\ b = copy.own THEN copy.ownReleases
    ELSE 0

\* ~MemoryArena: ::operator delete(buffer);  ~Arena: delete[] memory.
ArenaDestroy(i) ==
    /\ ArenaLifeLive
    /\ i \in alive
    /\ alive' = alive \ {i}
    /\ IF BufferOf(i) = FirstBuffer
       THEN releases' = releases + 1 /\ UNCHANGED copy
       ELSE /\ copy' = [copy EXCEPT !.ownReleases = copy.ownReleases + 1]
            /\ UNCHANGED releases
    /\ UNCHANGED <<threadVars, obj, aborted, poolVars, arenaVars, copyPtrs>>

\* operator delete of a buffer that was already released: the build may
\* stop the process.
ArenaDestroyAbort(i) ==
    /\ ArenaLifeLive
    /\ i \in alive
    /\ ReleasesOf(BufferOf(i)) >= 1
    /\ aborted' = TRUE
    /\ UNCHANGED <<threadVars, obj, poolVars, arenaVars, lifeVars>>

ArenaLifeInit == InitArena

ArenaLifeNext ==
    \/ \E size \in TraceSizes : MemoryArenaAllocate(size, 1)
    \/ MemoryArenaReset
    \/ \E size \in TraceSizes : ArenaAllocate(size)
    \/ ArenaReset
    \/ ArenaCopyConstruct
    \/ ArenaConstructOther
    \/ ArenaCopyAssign
    \/ ArenaAssignFromCopy
    \/ \E i \in alive : ArenaDestroy(i)
    \/ \E i \in alive : ArenaDestroyAbort(i)

ArenaLifeSpec == ArenaLifeInit /\ [][ArenaLifeNext]_vars

\* The buffers obtained from operator new so far.
BuffersObtained ==
    {FirstBuffer} \cup (IF HasCopy /\ copy.own # NULL THEN {copy.own} ELSE {})

(* C19: the arena's buffer is released exactly once over the program's     *)
(* lifetime: no sequence of construction, copy, assignment and destruction *)
(* of arena instances releases a buffer twice, or leaves a buffer          *)
(* unreleased once every instance is destroyed.                            *)
C19_ReleasedExactlyOnce ==
    obj \in {"MemoryArena", "Arena"} =>
        \A b \in BuffersObtained :
            /\ ReleasesOf(b) <= 1
            /\ alive = {} => ReleasesOf(b) = 1

\* The two halves of C19, each violated on its own.
NeverReleasedTwice ==
    obj \in {"MemoryArena", "Arena"} =>
        \A b \in BuffersObtained : ReleasesOf(b) <= 1
NeverLeftUnreleased ==
    (obj \in {"MemoryArena", "Arena"} /\ alive = {}) =>
        \A b \in BuffersObtained : ReleasesOf(b) >= 1

----------------------------------------------------------------------------
(* Two threads calling one MemoryPool.  The pool has no synchronisation of *)
(* its own, so a call is a sequence of separate reads and writes of        *)
(* m_FreeList and of the links; each action below is one of them, labelled *)
(* by its source line.  With locking the callers hold one mutex from the   *)
(* first statement of a call to its return.                                *)

ThreadLive(t) ==
    /\ obj = "MemoryPool" /\ ~aborted
    /\ "orig" \in alive /\ releases = 0

\* Thread t may start a call (each thread makes at most MaxCalls calls).
MayEnter(t) ==
    /\ pc[t] = "idle" /\ calls[t] < MaxCalls
    /\ locking => lock = NoThread

Enter(t) ==
    /\ lock' = IF locking THEN t ELSE lock
    /\ calls' = [calls EXCEPT ![t] = calls[t] + 1]
Leave(t) == lock' = IF locking THEN NoThread ELSE lock

Locals(block, next, result) == [block |-> block, next |-> next, result |-> result]

\* if (!m_FreeList) throw std::bad_alloc();
ThreadAllocateThrows(t) ==
    /\ ThreadLive(t) /\ MayEnter(t)
    /\ AllocateThrows(m_FreeList)
    /\ local' = [local EXCEPT ![t] = Locals(NULL, NULL, "threw")]
    /\ calls' = [calls EXCEPT ![t] = calls[t] + 1]
    /\ UNCHANGED <<obj, aborted, poolVars, arenaVars, lifeVars, locking, lock,
                   pc, held>>

\* if (!m_FreeList): the head is not null, the call goes on.
ThreadAllocateCheck(t) ==
    /\ ThreadLive(t) /\ MayEnter(t)
    /\ ~AllocateThrows(m_FreeList)
    /\ Enter(t)
    /\ pc' = [pc EXCEPT ![t] = "Allocate:55"]
    /\ local' = [local EXCEPT ![t] = Locals(NULL, NULL, "none")]
    /\ UNCHANGED <<obj, aborted, poolVars, arenaVars, lifeVars, locking, held>>

\* FreeBlock* block = m_FreeList;
ThreadAllocateRead(t) ==
    /\ ThreadLive(t) /\ pc[t] = "Allocate:55"
    /\ local' = [local EXCEPT ![t].block = m_FreeList]
    /\ pc' = [pc EXCEPT ![t] = "Allocate:56"]
    /\ UNCHANGED <<obj, aborted, poolVars, arenaVars, lifeVars, locking, lock,
                   held, calls>>

\* m_FreeList is loaded (line 56, the pointer of m_FreeList->next).
ThreadAllocateHead(t) ==
    /\ ThreadLive(t) /\ pc[t] = "Allocate:56"
    /\ local' = [local EXCEPT ![t].next = m_FreeList]
    /\ pc' = [pc EXCEPT ![t] = "Allocate:56.next"]
    /\ UNCHANGED <<obj, aborted, poolVars, arenaVars, lifeVars, locking, lock,
                   held, calls>>

\* ->next is read through the pointer loaded (right-hand side of line 56).
ThreadAllocateLoad(t) ==
    /\ ThreadLive(t) /\ pc[t] = "Allocate:56.next"
    /\ local[t].next # NULL /\ Written(mem, local[t].next)
    /\ local' = [local EXCEPT ![t].next = PopFree(mem, local[t].next).head]
    /\ pc' = [pc EXCEPT ![t] = "Allocate:56.store"]
    /\ UNCHANGED <<obj, aborted, poolVars, arenaVars, lifeVars, locking, lock,
                   held, calls>>

\* ->next through a null pointer, the other thread having taken the last
\* block since line 50: the process is stopped.
ThreadAllocateNull(t) ==
    /\ ThreadLive(t) /\ pc[t] = "Allocate:56.next"
    /\ local[t].next = NULL
    /\ aborted' = TRUE
    /\ UNCHANGED <<obj, poolVars, arenaVars, lifeVars, threadVars>>

\* m_FreeList = (the link read);  return reinterpret_cast<T*>(block);
ThreadAllocateReturn(t) ==
    /\ ThreadLive(t) /\ pc[t] = "Allocate:56.store"
    /\ m_FreeList' = local[t].next
    /\ held' = [held EXCEPT ![t] = held[t] \cup ({local[t].block} \ {NULL})]
    /\ local' = [local EXCEPT ![t] = Locals(local[t].block, NULL, "returned")]
    /\ pc' = [pc EXCEPT ![t] = "idle"]
    /\ Leave(t)
    /\ UNCHANGED <<obj, aborted, m_Pool, m_BlockCount, sizeofT, mem, ptrs,
                   misused, hist, arenaVars, lifeVars, locking, calls>>

\* Deallocate(p) for a block p the thread holds: m_FreeList is loaded
\* (right-hand side of line 64).
ThreadDeallocateRead(t, p) ==
    /\ ThreadLive(t) /\ MayEnter(t)
    /\ p \in held[t]
    /\ Enter(t)
    /\ local' = [local EXCEPT ![t] = Locals(p, m_FreeList, "none")]
    /\ pc' = [pc EXCEPT ![t] = "Deallocate:64"]
    /\ UNCHANGED <<obj, aborted, poolVars, arenaVars, lifeVars, locking, held>>

\* block->next = (the head loaded);
ThreadDeallocateLink(t) ==
    /\ ThreadLive(t) /\ pc[t] = "Deallocate:64"
    /\ mem' = PushFree(mem, local[t].next, local[t].block).mem
    /\ pc' = [pc EXCEPT ![t] = "Deallocate:65"]
    /\ UNCHANGED <<obj, aborted, m_Pool, m_FreeList, m_BlockCount, sizeofT,
                   ptrs, misused, hist, arenaVars, lifeVars, locking, lock,
                   local, held, calls>>

\* m_FreeList = block;
ThreadDeallocateStore(t) ==
    /\ ThreadLive(t) /\ pc[t] = "Deallocate:65"
    /\ m_FreeList' = PushFree(mem, m_FreeList, local[t].block).head
    /\ held' = [held EXCEPT ![t] = held[t] \ {local[t].block}]
    /\ local' = [local EXCEPT ![t] = Locals(NULL, NULL, "none")]
    /\ pc' = [pc EXCEPT ![t] = "idle"]
    /\ Leave(t)
    /\ UNCHANGED <<obj, aborted, m_Pool, m_BlockCount, sizeofT, mem, ptrs,
                   misused, hist, arenaVars, lifeVars, locking, calls>>

\* A pool of at least one block, used with or without the mutex.
ThreadInit ==
    /\ obj = "MemoryPool"
    /\ sizeofT = BLOCK_SIZE
    /\ aborted = FALSE
    /\ \E pool \in PoolBases, n \in 1 .. MaxBlocks :
         LET c == MemoryPoolCtor(pool, sizeofT, n) IN
           /\ m_Pool = c.m_Pool
           /\ m_FreeList = c.m_FreeList
           /\ m_BlockCount = c.m_BlockCount
           /\ mem = c.mem
    /\ ptrs = <<>> /\ misused = FALSE /\ hist = <<>>
    /\ buffer = NULL /\ capacity = 0 /\ offset = 0
    /\ last = ArenaCall("none", 0, 0, FALSE, NULL)
    /\ alive = {"orig"} /\ copy = NoCopy /\ copyPtrs = <<>> /\ releases = 0
    /\ locking \in BOOLEAN
    /\ ThreadsIdle

ThreadNext ==
    \E t \in Threads :
        \/ ThreadAllocateThrows(t)
        \/ ThreadAllocateCheck(t)
        \/ ThreadAllocateRead(t)
        \/ ThreadAllocateHead(t)
        \/ ThreadAllocateLoad(t)
        \/ ThreadAllocateNull(t)
        \/ ThreadAllocateReturn(t)
        \/ \E p \in held[t] : ThreadDeallocateRead(t, p)
        \/ ThreadDeallocateLink(t)
        \/ ThreadDeallocateStore(t)

ThreadSpec == ThreadInit /\ [][ThreadNext]_vars

\* No block is held by both threads.
NeverShared == held[1] \cap held[2] = {}

(* C20: when every Allocate / Deallocate call runs atomically (under the   *)
(* callers' mutex), no interleaving of two threads hands one block to two  *)
(* callers; without mutual exclusion two Allocate calls that interleave    *)
(* between the read of the head and the write of the new head can both be  *)
(* handed the same block (C20_Witness is such a state).                    *)
C20_AtomicCallsNeverShare == (obj = "MemoryPool" /\ locking) => NeverShared

\* Without the mutex, both threads have returned from Allocate with the
\* same block.
C20_Witness ==
    /\ obj = "MemoryPool" /\ ~locking /\ ~aborted
    /\ pc[1] = "idle" /\ pc[2] = "idle"
    /\ local[1].result = "returned" /\ local[2].result = "returned"
    /\ local[1].block # NULL /\ local[1].block = local[2].block
    /\ ~NeverShared

\* With the mutex, both threads hold blocks of the same pool, distinct ones.
AtomicBothHold ==
    /\ obj = "MemoryPool" /\ locking
    /\ held[1] # {} /\ held[2] # {}

\* The same property without the mutex: violated (the race of C20).
RacyCallsNeverShare == (obj = "MemoryPool" /\ ~locking) => NeverShared

----------------------------------------------------------------------------
(* Claims about failing arena calls and the C arena.                       *)

\* The outcomes of the requests reqs, made one after the other on an
\* arena that is like this one but at offset off.
RECURSIVE Replay(_, _)
Replay(reqs, off) ==
    IF reqs = <<>> THEN <<>>
    ELSE LET c == Head(reqs)
             r == IF c.op = "allocate"
                  THEN IF obj = "MemoryArena"
                       THEN MemoryArenaOutcome(buffer, off, capacity, c.size,
                                               c.alignment)
                       ELSE ArenaOutcome(buffer, off, capacity, c.size)
                  ELSE Outcome(FALSE, NULL, IF c.op = "reset" THEN 0 ELSE off)
         IN <<r>> \o Replay(Tail(reqs), r.offset)

NotRefused(c) == ~c.threw

\* The trace as it would be had the failing calls never been made.
WithoutFailures == SelectSeq(ArenaTrace, NotRefused)

\* Every call that succeeded got the address it gets when the failing calls
\* are left out, and the offset is the one that run ends with.
FailuresLeaveNoTrace ==
    LET kept == WithoutFailures
        rs   == Replay(kept, 0)
    IN /\ \A i \in 1 .. Len(kept) :
              kept[i].op = "allocate" =>
                  (~rs[i].threw /\ rs[i].ret = kept[i].ret)
       /\ obj \in {"MemoryArena", "Arena"} =>
              offset = (IF rs = <<>> THEN 0 ELSE rs[Len(rs)].offset)

\* This step is a traced allocate call that fails.
AllocateRefused ==
    /\ obj \in {"MemoryArena", "Arena"}
    /\ Len(hist') = Len(hist) + 1
    /\ hist'[Len(hist')].op = "allocate"
    /\ hist'[Len(hist')].threw

(* C21: a failing arena allocate leaves offset, capacity and buffer        *)
(* unchanged, so a later allocate whose aligned request fits still         *)
(* succeeds and returns the address it would have returned had the failing *)
(* call never been made.                                                   *)
C21_FailureChangesNothing ==
    /\ [](FailuresLeaveNoTrace /\ FitsNeverRefused)
    /\ [][AllocateRefused => UNCHANGED <<offset, capacity, buffer>>]_vars

\* A request was refused between two that succeeded; the second block
\* starts where the first ends.
C21_Witness ==
    /\ obj = "MemoryArena" /\ Len(hist) = 3
    /\ Succeeded(1)
    /\ hist[2].op = "allocate" /\ hist[2].threw
    /\ hist[2].alignment = 2 ^ MaxAlignLog
    /\ Succeeded(3)
    /\ hist[3].ret = hist[1].ret + hist[1].size

----------------------------------------------------------------------------
(* The benchmark's use of the pool (AllocatorTester::TestMemoryPool): it   *)
(* allocates block_count blocks, keeps them in a vector and deallocates    *)
(* them in the vector's order.  The run is followed here by the Allocate   *)
(* calls that empty the pool again.                                        *)

BenchLive ==
    /\ obj = "MemoryPool" /\ ~aborted
    /\ "orig" \in alive /\ releases = 0

\* One Allocate call of the benchmark or of the calls that follow it.
BenchAllocateCall ==
    IF AllocateThrows(m_FreeList)
    THEN /\ hist' = Append(hist, Call("Allocate", NULL, TRUE, NULL))
         /\ UNCHANGED <<m_FreeList, ptrs>>
    ELSE /\ Written(mem, m_FreeList)
         /\ LET r == PopFree(mem, m_FreeList) IN
              /\ m_FreeList' = r.head
              /\ ptrs' = Append(ptrs, r.block)
              /\ hist' = Append(hist, Call("Allocate", NULL, FALSE, r.block))

\* for (i < m_BlockCount) ptrs.push_back(pool.Allocate());
BenchAllocate ==
    /\ BenchLive
    /\ Len(hist) < m_BlockCount
    /\ BenchAllocateCall
    /\ UNCHANGED <<threadVars, obj, aborted, m_Pool, m_BlockCount, sizeofT,
                   mem, misused, arenaVars, lifeVars>>

\* for (auto p : ptrs) pool.Deallocate(p);
BenchDeallocate ==
    /\ BenchLive
    /\ m_BlockCount <= Len(hist) /\ Len(hist) < 2 * m_BlockCount
    /\ LET p == hist[Len(hist) - m_BlockCount + 1].ret
           r == PushFree(mem, m_FreeList, p)
       IN /\ mem' = r.mem
          /\ m_FreeList' = r.head
          /\ ptrs' = RemoveFirst(ptrs, p)
          /\ hist' = Append(hist, Call("Deallocate", p, FALSE, NULL))
    /\ UNCHANGED <<threadVars, obj, aborted, m_Pool, m_BlockCount, sizeofT,
                   misused, arenaVars, lifeVars>>

\* The Allocate calls after the benchmark: block_count of them and one more.
BenchAllocateAgain ==
    /\ BenchLive
    /\ 2 * m_BlockCount <= Len(hist) /\ Len(hist) < 3 * m_BlockCount + 1
    /\ BenchAllocateCall
    /\ UNCHANGED <<threadVars, obj, aborted, m_Pool, m_BlockCount, sizeofT,
                   mem, misused, arenaVars, lifeVars>>

BenchInit == InitPool /\ ~aborted

BenchNext == BenchAllocate \/ BenchDeallocate \/ BenchAllocateAgain

BenchSpec == BenchInit /\ [][BenchNext]_vars

\* The calls so far begin with the benchmark's pattern: all n blocks are
\* allocated, then deallocated in the order they were allocated.
BenchmarkPattern ==
    /\ Len(hist) >= 2 * m_BlockCount
    /\ \A i \in 1 .. m_BlockCount :
          /\ hist[i].op = "Allocate" /\ ~hist[i].threw
          /\ hist[m_BlockCount + i].op = "Deallocate"
          /\ hist[m_BlockCount + i].arg = hist[i].ret

(* C22: after all n blocks of a fresh pool were allocated and then         *)
(* deallocated in the order they were allocated, the next n Allocate calls *)
(* succeed and return slot n-1, n-2, ..., 0, and the call after them fails *)
(* with bad_alloc.                                                         *)
C22_BenchmarkReverses ==
    (PoolRunning /\ BenchmarkPattern) =>
        \A k \in 1 .. (Len(hist) - 2 * m_BlockCount) :
            AllocRun(2 * m_BlockCount + 1, 2 * m_BlockCount + k - 1)
              /\ hist[2 * m_BlockCount + k].op = "Allocate"
            => /\ k <= m_BlockCount =>
                    /\ ~hist[2 * m_BlockCount + k].threw
                    /\ hist[2 * m_BlockCount + k].ret
                           = SlotAddr(m_Pool, sizeofT, m_BlockCount - k)
               /\ k = m_BlockCount + 1 => hist[2 * m_BlockCount + k].threw

\* The same statement for pools of at least one block (it holds there).
C22_BenchmarkReversesNonEmpty == m_BlockCount >= 1 => C22_BenchmarkReverses

\* The whole run was made on the largest pool.
BenchmarkDone ==
    /\ PoolRunning /\ m_BlockCount = MaxBlocks
    /\ Len(hist) = 3 * m_BlockCount + 1
    /\ hist[Len(hist)].threw

----------------------------------------------------------------------------
(* Claims about misuse of the pool and about its link writes.              *)

\* An Allocate call returned or threw in this step.
AllocateCalled ==
    /\ Len(hist') = Len(hist) + 1
    /\ hist'[Len(hist')].op = "Allocate"

\* The free list is the single block p linked to itself.
SelfLoop(p) ==
    /\ p # NULL /\ m_FreeList = p
    /\ Written(mem, p) /\ ReadLink(mem, p) = p

\* More hops than there are blocks a link can point to: the slots, the
\* storage's address when there are no slots, and the caller's own object.
CycleFuel == m_BlockCount + 3

\* The free list never reaches null: it runs into a cycle.
Cyclic == Len(Walk(mem, m_FreeList, CycleFuel)) = CycleFuel

----------------------------------------------------------------------------
(* The pool for element types of other sizes than main's, used within its  *)
(* contract (Deallocate only of held blocks).  When sizeof(T) is less than *)
(* the size of a link the links of neighbouring slots share bytes.         *)

\* sizeof(T) of the instantiations: a char, a 4-byte type, a type of the
\* size of a link, and main's Block.
ElementSizes == {1, 4, PtrSize, BLOCK_SIZE}

SizedInit == InitPoolOf(ElementSizes)

SizedNext ==
    \/ AllocateFail
    \/ AllocateOk
    \/ AllocateAbort
    \/ \E p \in Range(ptrs) : DeallocateOk(p)
    \/ \E p \in Range(ptrs) : DeallocateAbort(p)

SizedSpec == SizedInit /\ [][SizedNext]_vars

\* [storage, storage + sizeof(T) * blockCount)
StorageBytes == m_Pool .. (m_Pool + sizeofT * m_BlockCount - 1)

\* The bytes the constructor wrote are all inside the storage.
CtorWritesInside ==
    (obj = "MemoryPool" /\ hist = <<>>) => DOMAIN mem \subseteq StorageBytes

\* No two links the constructor wrote share a byte.
CtorLinksApart ==
    obj = "MemoryPool" =>
        \A a, b \in CtorWrites(m_Pool, sizeofT, m_BlockCount) :
            a # b => LinkBytes(a) \cap LinkBytes(b) = {}

\* The slots that are free: those the caller does not hold.
FreeSlots == SlotAddrs(m_Pool, sizeofT, m_BlockCount) \ Range(ptrs)

\* Deallocate(p) of a held block wrote p's link inside the storage and
\* apart from the link of every other free slot.
HeldDeallocateWritesApart ==
    \A p \in Range(ptrs) :
        (obj = "MemoryPool" /\ DeallocateReturned(p)) =>
            /\ LinkBytes(p) \subseteq StorageBytes
            /\ \A q \in FreeSlots \ {p} : LinkBytes(p) \cap LinkBytes(q) = {}

(* C24: every link written by the pool constructor and by Deallocate of a  *)
(* held block lies inside [storage, storage + sizeof(T) * blockCount) and  *)
(* overwrites no byte of another free slot's link, for every blockCount    *)
(* >= 0 and every sizeof(T) >= 1.                                          *)
C24_LinkWritesInStorage ==
    /\ [](CtorWritesInside /\ CtorLinksApart)
    /\ [][HeldDeallocateWritesApart]_vars

\* The same statement for pools of at least one block whose elements are
\* at least as large as a link (it holds there).
C24_LinkSizedBlocks ==
    /\ []((m_BlockCount >= 1 /\ sizeofT >= PtrSize)
             => (CtorWritesInside /\ CtorLinksApart))
    /\ [][(m_BlockCount >= 1 /\ sizeofT >= PtrSize)
             => HeldDeallocateWritesApart]_vars

\* The same statement for pools of at least one block, of any element size:
\* violated by the elements smaller than a link.
C24_NonEmptyPools ==
    /\ [](m_BlockCount >= 1 => (CtorWritesInside /\ CtorLinksApart))
    /\ [][m_BlockCount >= 1 => HeldDeallocateWritesApart]_vars

\* The same statement for main's element size, block count 0 included:
\* violated by the empty pool.
C24_MainBlocks ==
    [](sizeofT = BLOCK_SIZE => (CtorWritesInside /\ CtorLinksApart))

----------------------------------------------------------------------------
(* The C arena (struct MemoryArena with arena_init, align_up,              *)
(* arena_allocate, arena_reset, arena_destroy).  Its members base, size    *)
(* and offset are kept in buffer, capacity and offset.  The struct has no  *)
(* lifetime of its own: it can be used on after arena_destroy, and after   *)
(* an arena_init whose malloc failed.                                      *)

\* size_t mask = alignment - 1;  return (offset + mask) & ~mask;
align_up(off, alignment) ==
    LET mask == (alignment + Word - 1) % Word IN
      BitAnd((off + mask) % Word, BitNot(mask), WordBits)

\* arena_allocate on an arena with members base, off, sz: whether it returns
\* NULL (threw), the pointer it returns and the offset it leaves.
arena_allocate(base, off, sz, n, alignment) ==
    LET aligned_offset == align_up(off, alignment) IN
      IF (aligned_offset + n) % Word > sz
      THEN Outcome(TRUE, NULL, off)
      ELSE Outcome(FALSE, (base + aligned_offset) % Word,
                   (aligned_offset + n) % Word)

\* Request sizes of the C arena's callers.
CArenaSizes == TraceSizes \cup {0}

CArenaLive == obj = "CArena" /\ ~aborted

Traced_arena_allocate(n, alignment) ==
    /\ CArenaLive
    /\ LET r == arena_allocate(buffer, offset, capacity, n, alignment) IN
         /\ last' = ArenaCall("allocate", n, alignment, r.threw, r.ret)
         /\ offset' = r.offset
    /\ Traced
    /\ UNCHANGED <<threadVars, obj, aborted, buffer, capacity, lifeVars>>
    /\ UNCHANGED <<poolMembers, mem>>

Traced_arena_reset ==
    /\ CArenaLive
    /\ offset' = 0
    /\ last' = ArenaCall("reset", 0, 0, FALSE, NULL)
    /\ Traced
    /\ UNCHANGED <<threadVars, obj, aborted, buffer, capacity, lifeVars>>
    /\ UNCHANGED <<poolMembers, mem>>

\* free(arena->base);  base = NULL;  size = 0;  offset = 0;
\* (free of a null pointer releases nothing.)
Traced_arena_destroy ==
    /\ CArenaLive
    /\ releases' = IF buffer = NULL THEN releases ELSE releases + 1
    /\ buffer' = NULL
    /\ capacity' = 0
    /\ offset' = 0
    /\ last' = ArenaCall("destroy", 0, 0, FALSE, NULL)
    /\ Traced
    /\ UNCHANGED <<threadVars, obj, aborted, alive, copy, copyPtrs>>
    /\ UNCHANGED <<poolMembers, mem>>

\* arena_init: base is what malloc returns, a block aligned for max_align_t
\* or, when it fails, a null pointer (the result is not tested).
arena_init ==
    /\ obj = "CArena"
    /\ aborted = FALSE
    /\ buffer \in ArenaBases \cup {NULL}
    /\ capacity \in ArenaCapacities
    /\ offset = 0
    /\ last = ArenaCall("none", 0, 0, FALSE, NULL)
    /\ m_Pool = NULL /\ m_FreeList = NULL /\ m_BlockCount = 0
    /\ sizeofT = BLOCK_SIZE
    /\ mem = EmptyMem
    /\ ptrs = <<>>
    /\ misused = FALSE
    /\ hist = <<>>
    /\ InitLife

CArenaNext ==
    \/ \E n \in CArenaSizes, alignment \in TraceAlignments :
           Traced_arena_allocate(n, alignment)
    \/ Traced_arena_reset
    \/ Traced_arena_destroy

CArenaSpec == arena_init /\ [][CArenaNext]_vars

\* The calls made on the C arena so far.
CArenaTrace == IF obj = "CArena" THEN hist ELSE <<>>

\* What MemoryArena::allocate and MemoryArena::reset make of the requests
\* reqs on an arena with the same buffer and capacity, from offset off.
RECURSIVE ReplayMemoryArena(_, _)
ReplayMemoryArena(reqs, off) ==
    IF reqs = <<>> THEN <<>>
    ELSE LET c == Head(reqs)
             r == IF c.op = "allocate"
                  THEN MemoryArenaOutcome(buffer, off, capacity, c.size,
                                          c.alignment)
                  ELSE Outcome(FALSE, NULL, 0)
         IN <<r>> \o ReplayMemoryArena(Tail(reqs), r.offset)

\* Every non-null pointer arena_allocate returned is a multiple of the
\* alignment.
CResultsAligned ==
    \A i \in DOMAIN CArenaTrace :
        (CArenaTrace[i].op = "allocate" /\ CArenaTrace[i].ret # NULL) =>
            CArenaTrace[i].ret % CArenaTrace[i].alignment = 0

\* The arena has a buffer: malloc succeeded and arena_destroy was not
\* called (a MemoryArena always has one while it lives).
HasBuffer ==
    /\ buffer # NULL
    /\ \A i \in DOMAIN CArenaTrace : CArenaTrace[i].op # "destroy"

\* The calls failed and succeeded as MemoryArena's do on the same requests,
\* and left the same offset.
SameAsMemoryArena ==
    HasBuffer =>
        LET rs == ReplayMemoryArena(CArenaTrace, 0) IN
          /\ \A i \in DOMAIN CArenaTrace :
                 CArenaTrace[i].op = "allocate" =>
                     rs[i].threw = CArenaTrace[i].threw
          /\ CArenaTrace # <<>> => offset = rs[Len(rs)].offset

\* This step is a call of arena_allocate.
arena_allocate_called ==
    /\ obj = "CArena"
    /\ Len(hist') = Len(hist) + 1
    /\ last'.op = "allocate"

\* A request whose aligned extent does not fit is answered with NULL and
\* the offset stays.
RefusedWhenTooBig ==
    (/\ arena_allocate_called
     /\ offset + PadTo(offset, last'.alignment) + last'.size > capacity)
        => (last'.ret = NULL /\ offset' = offset)

(* C25: the C arena_allocate(arena, n, alignment), for a power-of-two      *)
(* alignment, returns only multiples of the alignment, returns NULL and    *)
(* leaves the offset unchanged when the aligned request does not fit, and  *)
(* on the same request sequence yields the same offsets and the same       *)
(* success/failure outcomes as MemoryArena::allocate, for every base       *)
(* address of the buffer.                                                  *)
C25_CArenaAsMemoryArena ==
    /\ [](CResultsAligned /\ SameAsMemoryArena)
    /\ [][RefusedWhenTooBig]_vars

\* Every alignment requested so far divides the base address.
BaseAligned ==
    \A i \in DOMAIN CArenaTrace :
        CArenaTrace[i].op = "allocate" => buffer % CArenaTrace[i].alignment = 0

\* When the base address is a multiple of the alignments the two arenas do
\* agree and the results are aligned (it holds).
C25_AgreeOnAlignedBase ==
    (HasBuffer /\ BaseAligned) => (CResultsAligned /\ SameAsMemoryArena)

\* The refusal of requests that do not fit, alone: violated when
\* aligned_offset + n wraps.
C25_RefusedWhenTooBig == [][RefusedWhenTooBig]_vars

\* The alignment of the results, alone: violated when the base address is
\* not a multiple of the alignment.
C25_ResultsAligned == CResultsAligned

\* The agreement with MemoryArena, alone: violated likewise.
C25_SameAsMemoryArena == SameAsMemoryArena

====
